---- MODULE Spec2Model ----
(***************************************************************************)
(* GaussianIntegral (src/sympy/gaussian_integral.py): the n-dimensional    *)
(* Gaussian integral by the Cartesian-to-spherical change of coordinates.  *)
(*                                                                         *)
(* The symbolic values the class hands to and gets from the algebra engine *)
(* are modelled exactly, in the ring the class's expressions live in:      *)
(* polynomials in r, cos(phi_k), sin(phi_k) with rational coefficients     *)
(* times a power of pi^(1/4), optionally weighted by exp(-r^2).            *)
(*   term        [num, den, pi4, w, r, c, s]                               *)
(*               = num/den * pi^(pi4/4) * exp(-r^2)^w * r^r                *)
(*                 * PROD_k cos(phi_k)^c[k] * sin(phi_k)^s[k]              *)
(*   sum         a sequence of terms (an unsimplified sum)                 *)
(*   value       [terms, root]: the 2^root-th root of the sum of a set of  *)
(*               terms with pairwise distinct monomials (collected form)   *)
(***************************************************************************)
EXTENDS Integers, Sequences, FiniteSets, TLC

\* Largest dimension a caller passes to the constructor.
MaxN == 5
\* Number of invalid dimensions (0, -1, ...) a caller passes to the constructor.
MaxBad == 2
\* Number of queries a caller makes on one instance.
MaxCalls == 3

\* Indices k of the angular symbol names phi<k> that can occur.
PhiIdx == 0 .. MaxN

Abs(a) == IF a < 0 THEN 0 - a ELSE a

RECURSIVE Gcd(_, _)
Gcd(a, b) == IF b = 0 THEN a ELSE Gcd(b, a % b)

\* ---------------------------------------------------------------------
\* Symbols
\* ---------------------------------------------------------------------

\* Symbol('r'): the symbol named r.
RSym == <<"r">>

\* The symbol named phi<k>.
PhiSym(k) == <<"phi", k>>

\* symbols('phi0'): the single symbol phi0 (not a range).
symbols_one == PhiSym(0)

\* symbols('phi0:<m>'): the tuple of the symbols phi0 .. phi<m-1>.
symbols_range(m) == [j \in 1 .. m |-> PhiSym(j - 1)]

IsPhi(sym) == Len(sym) = 2

\* ---------------------------------------------------------------------
\* Terms and sums
\* ---------------------------------------------------------------------

ZeroExp == [k \in PhiIdx |-> 0]

\* The integer q as a term.
IntTerm(q) ==
  [num |-> q, den |-> 1, pi4 |-> 0, w |-> 0, r |-> 0, c |-> ZeroExp, s |-> ZeroExp]

\* The radial symbol as a sum (angles occur only under cos and sin).
SymE(sym) == << [IntTerm(1) EXCEPT !.r = 1] >>

\* cos(sym), sin(sym) of an angular symbol, exp(-r**2), as sums.
cos(sym) == << [IntTerm(1) EXCEPT !.c[sym[2]] = 1] >>

sin(sym) == << [IntTerm(1) EXCEPT !.s[sym[2]] = 1] >>

exp_neg_r2 == << [IntTerm(1) EXCEPT !.w = 1] >>

\* Product of two terms, the coefficient in lowest terms.
TMul(a, b) ==
  LET nn == a.num * b.num
      dd == a.den * b.den
      g  == IF nn = 0 THEN dd ELSE Gcd(Abs(nn), dd)
  IN [num |-> nn \div g, den |-> dd \div g, pi4 |-> a.pi4 + b.pi4,
      w |-> a.w + b.w, r |-> a.r + b.r,
      c |-> [k \in PhiIdx |-> a.c[k] + b.c[k]],
      s |-> [k \in PhiIdx |-> a.s[k] + b.s[k]]]

TScale(q, t) == [t EXCEPT !.num = q * t.num]

\* a * b on sums: every pairwise product, terms with coefficient 0 dropped
\* (the engine's automatic evaluation 0*x -> 0).
Mul(a, b) ==
  LET la == Len(a)
      lb == Len(b)
      all == [p \in 1 .. la * lb |->
                TMul(a[((p - 1) \div lb) + 1], b[((p - 1) % lb) + 1])]
  IN SelectSeq(all, LAMBDA t : t.num # 0)

Neg(a) == [p \in 1 .. Len(a) |-> TScale(0 - 1, a[p])]

\* ---------------------------------------------------------------------
\* Differentiation
\* ---------------------------------------------------------------------

\* d t / d sym for one term (exp(-r^2) does not occur in a parametrization).
TDiff(t, sym) ==
  IF ~IsPhi(sym)
  THEN IF t.r = 0 THEN <<>>
       ELSE << [TScale(t.r, t) EXCEPT !.r = t.r - 1] >>
  ELSE LET k == sym[2]
           dc == IF t.c[k] = 0 THEN <<>>
                 ELSE << [TScale(0 - t.c[k], t) EXCEPT
                            !.c[k] = t.c[k] - 1, !.s[k] = t.s[k] + 1] >>
           ds == IF t.s[k] = 0 THEN <<>>
                 ELSE << [TScale(t.s[k], t) EXCEPT
                            !.s[k] = t.s[k] - 1, !.c[k] = t.c[k] + 1] >>
       IN dc \o ds

RECURSIVE Diff(_, _)
Diff(e, sym) ==
  IF e = <<>> THEN <<>> ELSE TDiff(Head(e), sym) \o Diff(Tail(e), sym)

\* Matrix.jacobian: entry [row][col] = d X[row] / d Y[col].
MatrixJacobian(X, Y) ==
  [row \in 1 .. Len(X) |-> [col \in 1 .. Len(Y) |-> Diff(X[row], Y[col])]]

\* ---------------------------------------------------------------------
\* Determinant
\* ---------------------------------------------------------------------

\* M without its first row and without column col.
Minor(M, col) ==
  [row \in 1 .. Len(M) - 1 |->
     [j \in 1 .. Len(M[1]) - 1 |->
        IF j < col THEN M[row + 1][j] ELSE M[row + 1][j + 1]]]

RECURSIVE DetFrom(_, _)
\* Laplace expansion along the first row, columns col .. Len(M).
RECURSIVE Det(_)
Det(M) == IF Len(M) = 0 THEN << IntTerm(1) >> ELSE DetFrom(M, 1)

DetFrom(M, col) ==
  IF col > Len(M[1]) THEN <<>>
  ELSE LET e == M[1][col]
           cof == IF e = <<>> THEN <<>>
                  ELSE LET p == Mul(e, Det(Minor(M, col)))
                       IN IF col % 2 = 1 THEN p ELSE Neg(p)
       IN cof \o DetFrom(M, col + 1)

\* ---------------------------------------------------------------------
\* Simplification: the normal form modulo cos^2 + sin^2 = 1
\* ---------------------------------------------------------------------

RECURSIVE ReduceCos(_)
\* cos^2 -> 1 - sin^2 until every power of a cosine is 0 or 1.
ReduceCos(t) ==
  IF \E k \in PhiIdx : t.c[k] >= 2
  THEN LET k == CHOOSE j \in PhiIdx : t.c[j] >= 2
           lo == [t EXCEPT !.c[k] = t.c[k] - 2]
       IN ReduceCos(lo) \o
          ReduceCos([TScale(0 - 1, lo) EXCEPT !.s[k] = lo.s[k] + 2])
  ELSE << t >>

RECURSIVE ReduceAll(_, _, _)
\* ReduceCos of the terms lo .. hi of e, concatenated.
ReduceAll(e, lo, hi) ==
  IF lo > hi THEN <<>>
  ELSE IF lo = hi THEN ReduceCos(e[lo])
  ELSE LET mid == (lo + hi) \div 2
       IN ReduceAll(e, lo, mid) \o ReduceAll(e, mid + 1, hi)

Monomial(t) == [pi4 |-> t.pi4, w |-> t.w, r |-> t.r, c |-> t.c, s |-> t.s]

\* a + b on fractions <<num, den>>, in lowest terms.
RatAdd(a, b) ==
  LET nn == a[1] * b[2] + b[1] * a[2]
      dd == a[2] * b[2]
      g  == IF nn = 0 THEN dd ELSE Gcd(Abs(nn), dd)
  IN << nn \div g, dd \div g >>

RECURSIVE SumCoef(_, _, _, _)
\* Sum of the coefficients of the terms lo .. hi of e whose monomial is m.
SumCoef(e, m, lo, hi) ==
  IF lo > hi THEN << 0, 1 >>
  ELSE IF lo = hi
       THEN IF Monomial(e[lo]) = m THEN << e[lo].num, e[lo].den >> ELSE << 0, 1 >>
  ELSE LET mid == (lo + hi) \div 2
       IN RatAdd(SumCoef(e, m, lo, mid), SumCoef(e, m, mid + 1, hi))

\* Like terms of a sum collected, terms with coefficient 0 dropped.
Collect(e) ==
  LET ms == { Monomial(e[p]) : p \in 1 .. Len(e) }
      co(m) == SumCoef(e, m, 1, Len(e))
  IN { [num |-> co(m)[1], den |-> co(m)[2], pi4 |-> m.pi4, w |-> m.w,
        r |-> m.r, c |-> m.c, s |-> m.s] : m \in { q \in ms : co(q)[1] # 0 } }

\* expr.simplify() of a sum.
Simplify(e) == [terms |-> Collect(ReduceAll(e, 1, Len(e))), root |-> 0]

RECURSIVE SetToSeq(_)
SetToSeq(S) ==
  IF S = {} THEN <<>>
  ELSE LET t == CHOOSE q \in S : TRUE IN << t >> \o SetToSeq(S \ {t})

\* e * v for a sum e and a simplified value v.
ValueMul(e, v) == [terms |-> Collect(Mul(e, SetToSeq(v.terms))), root |-> v.root]

\* ---------------------------------------------------------------------
\* Definite integration and square root
\* ---------------------------------------------------------------------

\* The fraction a/b times pi^(q/4) as a term.
Coef(a, b, q) == [IntTerm(a) EXCEPT !.den = b, !.pi4 = q]

RECURSIVE GaussMoment(_)
\* Integral of exp(-r^2) * r^a over r in [0, oo).
GaussMoment(a) ==
  IF a = 0 THEN Coef(1, 2, 2)
  ELSE IF a = 1 THEN Coef(1, 2, 0)
  ELSE TMul(Coef(a - 1, 2, 0), GaussMoment(a - 2))

RECURSIVE SinInt(_)
\* Integral of sin(phi)^b over phi in [0, pi].
SinInt(b) ==
  IF b = 0 THEN Coef(1, 1, 4)
  ELSE IF b = 1 THEN Coef(2, 1, 0)
  ELSE TMul(Coef(b - 1, b, 0), SinInt(b - 2))

\* Integral of one term (in normal form) over one limit (sym, 0, hi).
TInt(t, lim) ==
  LET sym == lim[1]
      hi  == lim[3]
  IN IF ~IsPhi(sym)
     THEN \* hi = oo, and t carries the weight exp(-r^2) (t.w = 1), as every
          \* term of the class's integrand does
          TMul([t EXCEPT !.r = 0, !.w = 0], GaussMoment(t.r))
     ELSE LET k == sym[2]
              rest == [t EXCEPT !.c[k] = 0, !.s[k] = 0]
          IN IF t.c[k] = 1 THEN TScale(0, rest)
             ELSE IF hi = "pi" THEN TMul(rest, SinInt(t.s[k]))
             ELSE IF t.s[k] % 2 = 1 THEN TScale(0, rest)
             ELSE TMul(rest, TMul(Coef(2, 1, 0), SinInt(t.s[k])))

RECURSIVE Integrate(_, _)
\* integrate(f, *limits): the limits are integrated out one at a time, the
\* first one innermost.
Integrate(f, limits) ==
  IF limits = <<>> THEN f
  ELSE LET ts == SetToSeq(f.terms)
           g  == [p \in 1 .. Len(ts) |-> TInt(ts[p], Head(limits))]
       IN Integrate([terms |-> Collect(g), root |-> f.root], Tail(limits))

IsSquare(q) == \E j \in 0 .. q : j * j = q

ISqrt(q) == CHOOSE j \in 0 .. q : j * j = q

\* sqrt(v): exact when v is one positive constant with a square coefficient
\* and an even power of pi^(1/4), otherwise left as a root.
sqrt(v) ==
  IF /\ v.root = 0
     /\ \E t \in v.terms :
          /\ v.terms = {t}
          /\ t.num > 0 /\ IsSquare(t.num) /\ IsSquare(t.den) /\ t.pi4 % 2 = 0
          /\ Monomial(t) = Monomial(Coef(1, 1, t.pi4))
  THEN LET t == CHOOSE q \in v.terms : TRUE
       IN [terms |-> { Coef(ISqrt(t.num), ISqrt(t.den), t.pi4 \div 2) }, root |-> 0]
  ELSE [v EXCEPT !.root = v.root + 1]

\* pi^(q/4) as a value; pi itself is PiPow4(4).
PiPow4(q) == [terms |-> { Coef(1, 1, q) }, root |-> 0]

pi == PiPow4(4)

\* ---------------------------------------------------------------------
\* The class
\* ---------------------------------------------------------------------

Last(q) == q[Len(q)]

ButLast(q) == SubSeq(q, 1, Len(q) - 1)

\* The empty attribute dictionary of an object under construction.
NoAttrs == [a \in {} |-> 0]

\* No value (a local not yet bound, no return value yet).
None == <<>>

VARIABLES
  pc,             \* where the caller / the running query stands
  arg,            \* the argument the constructor was called with
  self,           \* the instance's attributes: n, r, phis once assigned
  calls,          \* number of queries made on the instance
  op,             \* the public query running or last run
  limits_of_int,  \* doit: the limit list
  k,              \* doit: position of the for loop in self.phis[:-1]
  int,            \* doit: the raw result of integrate
  syms,           \* jacobian: the variable list
  x_coords,       \* _cartesian_to_spherical: the coordinate list
  i,              \* _cartesian_to_spherical: the loop variable
  J,              \* jacobian: the Jacobian matrix
  det,            \* jacobian_det: the simplified determinant
  ret,            \* the value the last finished query returned
  doit_results    \* every value doit has returned, oldest first

vars == << pc, arg, self, calls, op, limits_of_int, k, int, syms, x_coords, i,
           J, det, ret, doit_results >>

locals == << limits_of_int, k, int, syms, x_coords, i, J, det >>

FreshLocals ==
  /\ limits_of_int' = None /\ k' = 0 /\ int' = None /\ syms' = None
  /\ x_coords' = None /\ i' = 0 /\ J' = None /\ det' = None

Args == (1 - MaxBad) .. MaxN

Ops == {"jacobian", "jacobian_det", "doit"}

Init ==
  /\ pc = "new" /\ arg \in Args /\ self = NoAttrs /\ calls = 0 /\ op = "none"
  /\ limits_of_int = None /\ k = 0 /\ int = None /\ syms = None
  /\ x_coords = None /\ i = 0 /\ J = None /\ det = None /\ ret = None
  /\ doit_results = <<>>

\* Faulty variant of init_phis: the range runs one symbol too far.
init_phis_mut(m) == IF m = 1 THEN << symbols_one >> ELSE symbols_range(m)

\* __init__, lines 52-55: the angular symbols for dimension m.
init_phis(m) == IF m = 1 THEN << symbols_one >> ELSE symbols_range(m - 1)

\* Faulty variant of GaussianIntegral: the guard lets 0 through.
GaussianIntegral_mut(m) ==
  /\ pc = "new" /\ arg = m
  /\ IF m < 0
     THEN pc' = "raised" /\ self' = self
     ELSE /\ self' = [n |-> m, r |-> RSym, phis |-> init_phis(m)]
          /\ pc' = "idle"
  /\ UNCHANGED << arg, calls, op, locals, ret, doit_results >>

\* __init__(self, n), lines 47-55.
GaussianIntegral(m) ==
  /\ pc = "new" /\ arg = m
  /\ IF m < 1
     THEN pc' = "raised" /\ self' = self
     ELSE /\ self' = [n |-> m, r |-> RSym, phis |-> init_phis(m)]
          /\ pc' = "idle"
  /\ UNCHANGED << arg, calls, op, locals, ret, doit_results >>

\* The caller invokes one of the public queries on the instance; the query
\* starts with no local bound.
Call(o) ==
  /\ pc = "idle" /\ calls < MaxCalls
  /\ calls' = calls + 1 /\ op' = o /\ ret' = None /\ FreshLocals
  /\ pc' = IF o = "doit" THEN "doit_limits" ELSE "jacobian"
  /\ UNCHANGED << arg, self, doit_results >>

\* Faulty variant of first_limits: the first angle gets the full circle.
first_limits_mut(obj) ==
  << << obj.r, 0, "oo" >>, << obj.phis[1], 0, "2*pi" >> >>

\* doit, line 96: the first two limits.
first_limits(obj) ==
  << << obj.r, 0, "oo" >>, << Last(obj.phis), 0, "2*pi" >> >>

doit_limits ==
  /\ pc = "doit_limits"
  /\ limits_of_int' = first_limits(self) /\ k' = 1 /\ pc' = "doit_for"
  /\ UNCHANGED << arg, self, calls, op, int, syms, x_coords, i, J, det, ret, doit_results >>

\* doit, line 97: the sequence the for loop runs over.
loop_phis(obj) == ButLast(obj.phis)

\* doit, lines 97-98: one iteration of the for loop, or its end; line 99
\* then calls jacobian_det, which calls jacobian.
doit_for ==
  /\ pc = "doit_for"
  /\ IF k <= Len(loop_phis(self))
     THEN /\ limits_of_int' = Append(limits_of_int, << loop_phis(self)[k], 0, "pi" >>)
          /\ k' = k + 1 /\ pc' = pc
     ELSE /\ pc' = "jacobian" /\ UNCHANGED << limits_of_int, k >>
  /\ UNCHANGED << arg, self, calls, op, int, syms, x_coords, i, J, det, ret, doit_results >>

\* Faulty variant of jacobian_syms: r is appended instead of prepended.
jacobian_syms_mut(obj) == obj.phis \o << obj.r >>

\* jacobian, lines 77-78: list(self.phis) with r prepended.
jacobian_syms(obj) == << obj.r >> \o obj.phis

\* Faulty variant of c2s_first: cosine and sine exchanged.
c2s_first_mut(obj) ==
  << Mul(SymE(obj.r), sin(obj.phis[1])), Mul(SymE(obj.r), cos(obj.phis[1])) >>

\* _cartesian_to_spherical, line 64.
c2s_first(obj) ==
  << Mul(SymE(obj.r), cos(obj.phis[1])), Mul(SymE(obj.r), sin(obj.phis[1])) >>

\* Faulty variant of jacobian_begin: r is inserted into self.phis itself
\* instead of into a copy.
jacobian_begin_mut ==
  /\ pc = "jacobian"
  /\ syms' = jacobian_syms(self)
  /\ self' = [self EXCEPT !.phis = syms']
  /\ x_coords' = c2s_first(self) /\ i' = 1 /\ pc' = "c2s_for"
  /\ UNCHANGED << arg, calls, op, limits_of_int, k, int, J, det, ret, doit_results >>

\* jacobian, lines 77-79, into _cartesian_to_spherical, line 64.
jacobian_begin ==
  /\ pc = "jacobian"
  /\ syms' = jacobian_syms(self)
  /\ x_coords' = c2s_first(self) /\ i' = 1 /\ pc' = "c2s_for"
  /\ UNCHANGED << arg, self, calls, op, limits_of_int, k, int, J, det, ret, doit_results >>

\* Faulty variant of c2s_body: the cosine branch is appended and the sine
\* branch written in place.
c2s_body_mut(xs, phis, j) ==
  LET old == xs[j + 1]
  IN Append([xs EXCEPT ![j + 1] = Mul(old, sin(phis[j + 1]))],
            Mul(old, cos(phis[j + 1])))

\* _cartesian_to_spherical, lines 66-68: the loop body for loop variable j
\* (Python indices are 0-based, sequences here 1-based).
c2s_body(xs, phis, j) ==
  LET old == xs[j + 1]
  IN Append([xs EXCEPT ![j + 1] = Mul(old, cos(phis[j + 1]))],
            Mul(old, sin(phis[j + 1])))

\* Faulty variant of c2s_in_range: the loop stops one iteration early.
c2s_in_range_mut(obj, j) == j < obj.n - 2

\* _cartesian_to_spherical, line 65: j in range(1, n - 1).
c2s_in_range(obj, j) == j < obj.n - 1

\* The query returns v to the caller.
Return(v) ==
  /\ ret' = v /\ pc' = "idle"
  /\ doit_results' = IF op = "doit" THEN Append(doit_results, v) ELSE doit_results

\* _cartesian_to_spherical, lines 65-69: one iteration, or the end of the loop
\* and jacobian, line 80.
c2s_for ==
  /\ pc = "c2s_for"
  /\ IF c2s_in_range(self, i)
     THEN /\ x_coords' = c2s_body(x_coords, self.phis, i) /\ i' = i + 1
          /\ UNCHANGED << pc, J, ret, doit_results >>
     ELSE /\ J' = MatrixJacobian(x_coords, syms)
          /\ IF op = "jacobian" THEN Return(J')
             ELSE pc' = "jacobian_det" /\ UNCHANGED << ret, doit_results >>
          /\ UNCHANGED << x_coords, i >>
  /\ UNCHANGED << arg, self, calls, op, limits_of_int, k, int, syms, det >>

\* jacobian_det, line 88.
det_simplify(M) == Simplify(Det(M))

\* Faulty variant of integrand: the Jacobian determinant is left out.
integrand_mut(d) == ValueMul(exp_neg_r2, [terms |-> { IntTerm(1) }, root |-> 0])

\* doit, line 99: the integrand.
integrand(d) == ValueMul(exp_neg_r2, d)

\* jacobian_det, line 88, and for doit line 99.
jacobian_det ==
  /\ pc = "jacobian_det"
  /\ det' = det_simplify(J)
  /\ IF op = "jacobian_det" THEN Return(det') /\ int' = int
     ELSE /\ int' = Integrate(integrand(det'), limits_of_int)
          /\ pc' = "doit_return"
          /\ UNCHANGED << ret, doit_results >>
  /\ UNCHANGED << arg, self, calls, op, limits_of_int, k, syms, x_coords, i, J >>

\* Faulty variant of doit_value: the square root for n = 1 is forgotten.
doit_value_mut(obj, v) == v

\* doit, lines 100-102.
doit_value(obj, v) == IF obj.n = 1 THEN sqrt(v) ELSE v

doit_return ==
  /\ pc = "doit_return"
  /\ Return(doit_value(self, int))
  /\ UNCHANGED << arg, self, calls, op, locals >>

Next ==
  \/ \E m \in Args : GaussianIntegral(m)
  \/ \E o \in Ops : Call(o)
  \/ doit_limits
  \/ doit_for
  \/ jacobian_begin
  \/ c2s_for
  \/ jacobian_det
  \/ doit_return

Spec == Init /\ [][Next]_vars

\* ---------------------------------------------------------------------
\* Properties
\* ---------------------------------------------------------------------

Constructed == pc \notin {"new", "raised"}

\* A query of kind o has returned and the caller has not called again.
Returned(o) == pc = "idle" /\ op = o /\ calls > 0

\* Number of angular symbols of a valid instance of dimension m.
NumPhis(m) == IF m = 1 THEN 1 ELSE m - 1

\* The term r^rp * PROD_k cos(phi_k)^ce[k] * sin(phi_k)^se[k].
Mono(rp, ce, se) == [IntTerm(1) EXCEPT !.r = rp, !.c = ce, !.s = se]

\* The value consisting of the one term t.
OneTerm(t) == [terms |-> {t}, root |-> 0]

\* r^rp * sin(phi0)^(m-2) * sin(phi1)^(m-3) * ... * sin(phi_{m-3})^1.
SphereDet(m, rp) ==
  OneTerm(Mono(rp, ZeroExp,
               [j \in PhiIdx |-> IF j <= m - 3 THEN m - 2 - j ELSE 0]))

\* [(r, 0, oo), (phi_{last}, 0, 2*pi), (phi0, 0, pi), ..., (phi_{last-1}, 0, pi)]
ExpectedLimits(m) ==
  << << RSym, 0, "oo" >>, << PhiSym(NumPhis(m) - 1), 0, "2*pi" >> >>
    \o [j \in 1 .. NumPhis(m) - 1 |-> << PhiSym(j - 1), 0, "pi" >>]

\* C1: when doit has built its limit list (from the end of its for loop until
\* it returns), the list is [(r, 0, oo), (phi_{n-2}, 0, 2*pi), (phi0, 0, pi),
\* ..., (phi_{n-3}, 0, pi)]; each of r and the angular symbols occurs in it
\* exactly once; for n = 1 and n = 2 it is [(r, 0, oo), (phi0, 0, 2*pi)].
C1_LimitList ==
  (op = "doit" /\ (pc \in {"jacobian", "c2s_for", "jacobian_det", "doit_return"}
                   \/ Returned("doit")))
  => /\ limits_of_int = ExpectedLimits(self.n)
     /\ \A v \in {self.r} \cup { self.phis[j] : j \in DOMAIN self.phis } :
          Cardinality({ p \in DOMAIN limits_of_int : limits_of_int[p][1] = v }) = 1
     /\ Len(limits_of_int) = 1 + Len(self.phis)
     /\ \A p \in DOMAIN limits_of_int :
          limits_of_int[p][3] = "2*pi" <=> p = 2
     /\ self.n \in {1, 2}
          => limits_of_int = << << RSym, 0, "oo" >>, << PhiSym(0), 0, "2*pi" >> >>

C1_Witness ==
  /\ pc = "jacobian_det" /\ op = "doit" /\ self.n = 4
  /\ limits_of_int = << << RSym, 0, "oo" >>, << PhiSym(2), 0, "2*pi" >>,
                        << PhiSym(0), 0, "pi" >>, << PhiSym(1), 0, "pi" >> >>

C4_DetLowDims ==
  Returned("jacobian_det")
  => /\ self.n \in {1, 2} => ret = OneTerm(Mono(1, ZeroExp, ZeroExp))
     /\ self.n = 3 => ret = OneTerm(Mono(2, ZeroExp, [ZeroExp EXCEPT ![0] = 1]))

C4_Witness ==
  /\ Returned("jacobian_det") /\ self.n = 3
  /\ ret = OneTerm(Mono(2, ZeroExp, [ZeroExp EXCEPT ![0] = 1]))

\* C5 as stated: for n >= 2 jacobian_det returns r^n * sin(phi0)^(n-2) * ...
\* with the power of sin(phi_k) being n-2-k; for n = 1 it returns r.
C5_Original ==
  Returned("jacobian_det")
  => ret = IF self.n = 1 THEN OneTerm(Mono(1, ZeroExp, ZeroExp))
           ELSE SphereDet(self.n, self.n)

\* C5 amended: for n >= 2 jacobian_det returns r^(n-1) * sin(phi0)^(n-2) *
\* sin(phi1)^(n-3) * ... * sin(phi_{n-3})^1: the power of r is n-1, the power
\* of sin(phi_k) is n-2-k for k = 0..n-3, and phi_{n-2} does not occur; for
\* n = 1 it returns r.
C5_DetClosedForm ==
  Returned("jacobian_det")
  => ret = IF self.n = 1 THEN OneTerm(Mono(1, ZeroExp, ZeroExp))
           ELSE SphereDet(self.n, self.n - 1)

C5_Witness ==
  /\ Returned("jacobian_det") /\ self.n = 4
  /\ ret = OneTerm(Mono(3, ZeroExp, [ZeroExp EXCEPT ![0] = 2, ![1] = 1]))

\* C6: the constructor raises exactly when its argument is below 1, and then
\* no attribute has been assigned and no query has run; for an argument of at
\* least 1 it assigns n, r and phis, with n the argument.
C6_InvalidDimension ==
  /\ pc = "raised" <=> (pc # "new" /\ arg < 1)
  /\ pc = "raised" => (DOMAIN self = {} /\ calls = 0 /\ op = "none")
  /\ Constructed
       => (arg >= 1 /\ DOMAIN self = {"n", "r", "phis"} /\ self.n = arg)

C6_Witness == pc = "raised" /\ arg = 0 /\ DOMAIN self = {}

\* C7: once constructed, and whatever queries have run, phis is the sequence
\* phi0, ..., phi_{n-2} of n-1 pairwise distinct symbols when n >= 2, and the
\* one symbol phi0 when n = 1.
C7_AngularSymbols ==
  Constructed
  => /\ Len(self.phis) = (IF self.n = 1 THEN 1 ELSE self.n - 1)
     /\ \A j \in DOMAIN self.phis : self.phis[j] = PhiSym(j - 1)
     /\ \A a, b \in DOMAIN self.phis : a # b => self.phis[a] # self.phis[b]
     /\ self.n = 1 => self.phis = << PhiSym(0) >>

C7_Witness ==
  /\ pc = "idle" /\ calls = MaxCalls /\ self.n = 4
  /\ self.phis = << PhiSym(0), PhiSym(1), PhiSym(2) >>

\* The matrix of the module docstring for n = 1:
\* [cos(phi0), -r*sin(phi0)], [sin(phi0), r*cos(phi0)].
DocJacobian1 ==
  LET c0 == [ZeroExp EXCEPT ![0] = 1]
  IN << << << Mono(0, c0, ZeroExp) >>, << TScale(0 - 1, Mono(1, ZeroExp, c0)) >> >>,
        << << Mono(0, ZeroExp, c0) >>, << Mono(1, c0, ZeroExp) >> >> >>

\* C8: jacobian differentiates with respect to [r, phi0, ..., phi_{n-2}] in
\* that order ([r, phi0] for n = 1), one row per coordinate and one column
\* per variable; the matrix is square, 2x2 for n = 1 and n x n for n >= 2.
C8_JacobianShape ==
  /\ (pc \in {"c2s_for", "jacobian_det", "doit_return"} \/ (pc = "idle" /\ calls > 0))
       => /\ syms = << RSym >> \o [j \in 1 .. NumPhis(self.n) |-> PhiSym(j - 1)]
          /\ syms[1] = self.r
  /\ (pc \in {"jacobian_det", "doit_return"} \/ (pc = "idle" /\ calls > 0))
       => /\ Len(J) = Len(x_coords)
          /\ \A row \in DOMAIN J :
               /\ Len(J[row]) = Len(syms)
               /\ \A col \in DOMAIN J[row] :
                    J[row][col] = Diff(x_coords[row], syms[col])
          /\ Len(J) = Len(syms)
          /\ Len(J) = (IF self.n = 1 THEN 2 ELSE self.n)
          /\ self.n = 1 => J = DocJacobian1
  /\ Returned("jacobian") => ret = J

C8_Witness ==
  /\ Returned("jacobian") /\ self.n = 3 /\ Len(ret) = 3 /\ Len(ret[1]) = 3
  /\ syms = << RSym, PhiSym(0), PhiSym(1) >>

AllSame(q) == \A a, b \in DOMAIN q : q[a] = q[b]

\* C9: no step of any query changes n, r or phis, and all values doit has
\* returned on the instance are identical.
C9_NoMutation ==
  [][ /\ pc # "new" => self' = self
      /\ AllSame(doit_results') ]_vars

C9_Witness ==
  /\ Len(doit_results) >= 2 /\ calls = MaxCalls /\ pc = "idle"
  /\ op = "jacobian" /\ self.n = 3

\* x_k = r * sin(phi0) * ... * sin(phi_{k-1}) * cos(phi_k) for k = 0..m-2 and
\* x_{m-1} = r * sin(phi0) * ... * sin(phi_{m-2}), coordinate k at position k+1.
SphereCoords(m) ==
  [p \in 1 .. m |->
     << Mono(1,
             [j \in PhiIdx |-> IF j = p - 1 /\ p <= m - 1 THEN 1 ELSE 0],
             [j \in PhiIdx |-> IF j < p - 1 /\ j <= m - 2 THEN 1 ELSE 0]) >>]

\* The loop of _cartesian_to_spherical has ended.
C2SDone == pc \in {"jacobian_det", "doit_return"} \/ (pc = "idle" /\ calls > 0)

C10_AtLoopStart == pc = "c2s_for" => (i >= 1 /\ Len(x_coords) = i + 1)

C10_Result ==
  C2SDone
  => /\ x_coords = SphereCoords(IF self.n = 1 THEN 2 ELSE self.n)
     /\ Len(x_coords) = (IF self.n = 1 THEN 2 ELSE self.n)
     /\ \A j \in DOMAIN self.phis :
          \E p \in DOMAIN x_coords :
            x_coords[p][1].c[j - 1] + x_coords[p][1].s[j - 1] > 0

\* C10: at the start of iteration i the coordinate list has i+1 elements; the
\* iteration replaces the last one, old, by old*cos(phi_i), appends
\* old*sin(phi_i) and leaves the coordinates before it unchanged; the loop
\* body never runs for n = 1; the result has n coordinates (2 for n = 1), of
\* the closed form SphereCoords, and uses every angular symbol.
C10_Parametrization ==
  [][ /\ C10_AtLoopStart /\ C10_AtLoopStart'
      /\ C10_Result /\ C10_Result'
      /\ (pc = "c2s_for" /\ pc' = "c2s_for")
           => /\ self.n >= 3 /\ i \in 1 .. self.n - 2
              /\ Len(x_coords') = Len(x_coords) + 1
              /\ \A p \in 1 .. i : x_coords'[p] = x_coords[p]
              /\ x_coords'[i + 1] =
                   << TMul(x_coords[Len(x_coords)][1],
                           Mono(0, [ZeroExp EXCEPT ![i] = 1], ZeroExp)) >>
              /\ x_coords'[i + 2] =
                   << TMul(x_coords[Len(x_coords)][1],
                           Mono(0, ZeroExp, [ZeroExp EXCEPT ![i] = 1])) >> ]_vars

C10_Witness ==
  /\ pc = "c2s_for" /\ i = 3 /\ self.n = 5 /\ Len(x_coords) = 4
  /\ x_coords[4] = << Mono(1, ZeroExp, [j \in PhiIdx |-> IF j <= 2 THEN 1 ELSE 0]) >>

====
